---- MODULE Spec2Model ----
(***************************************************************************)
(* Model of esphomeyaml/config.py: load_config, validate_config and        *)
(* do_id_pass.  One run reads a configuration, validates every top-level   *)
(* domain against the component registry and then resolves identifiers in  *)
(* the validated tree.  The run is a state machine whose steps are the     *)
(* statements and loop iterations of the three functions.                  *)
(***************************************************************************)
EXTENDS Integers, Sequences, FiniteSets, TLC

VARIABLES
    path,           \* what yaml_util.load_yaml(path) yields: a mapping or an OSError
    config,         \* the raw configuration, an ordered mapping <<key, conf>>, ...
    pc,             \* position of the run
    raised,         \* the exception that ended the run, or None
    ESP_PLATFORM,   \* core.ESP_PLATFORM
    ALL_COMPONENTS, \* _ALL_COMPONENTS
    result,         \* the Config (OrderedDict) under construction: <<key, value>>, ...
    errors,         \* Config.errors
    i,              \* index of the current top-level domain in config
    j,              \* index of the current entry of a platform-style domain
    platforms,      \* the local list `platforms` of validate_config
    declare_ids,    \* do_id_pass: accepted declarations
    searching_ids,  \* do_id_pass: references
    returned        \* what load_config returned: TRUE once a Config was handed back

vars == <<path, config, pc, raised, ESP_PLATFORM, ALL_COMPONENTS, result, errors,
          i, j, platforms, declare_ids, searching_ids, returned>>

-----------------------------------------------------------------------------
(* Bounds of the explored inputs *)

MaxExtra == 2
MaxEntries == 3
MaxItems == 3

-----------------------------------------------------------------------------
(* Python values *)

None == "None"
NoneNode == [kind |-> "None"]

CONF_ESPHOMEYAML == "esphomeyaml"
CONF_WIFI == "wifi"
CONF_NAME == "name"
CONF_PLATFORM == "platform"
CONF_BOARD == "board"

ESP_PLATFORM_ESP32 == <<"E", "S", "P", "3", "2">>
ESP_PLATFORM_ESP8266 == <<"E", "S", "P", "8", "2", "6", "6">>
ESP_PLATFORMS == {ESP_PLATFORM_ESP32, ESP_PLATFORM_ESP8266}

REQUIRED_COMPONENTS == <<CONF_ESPHOMEYAML, CONF_WIFI>>

\* unicode(value): the characters of a scalar of the configuration
unicode(s) ==
    CASE s = "esp32" -> <<"e", "s", "p", "3", "2">>
      [] s = "ESP8266" -> <<"E", "S", "P", "8", "2", "6", "6">>
      [] s = "nodemcu-32s" -> <<"n", "3", "2", "s">>
      [] s = "avr" -> <<"a", "v", "r">>
      [] OTHER -> <<>>

upper_char(c) ==
    CASE c = "e" -> "E" [] c = "s" -> "S" [] c = "p" -> "P" [] c = "n" -> "N"
      [] c = "a" -> "A" [] c = "v" -> "V" [] c = "r" -> "R"
      [] OTHER -> c

upper(s) == [k \in 1..Len(s) |-> upper_char(s[k])]

\* sub in s, for strings
contains(s, sub) ==
    \E k \in 0..(Len(s) - Len(sub)) : SubSeq(s, k + 1, k + Len(sub)) = sub

\* lines 290-295 of load_config
normalize_platform(value) ==
    LET p0 == upper(unicode(value))
        p1 == IF contains(p0, <<"8", "2", "6", "6">>) THEN ESP_PLATFORM_ESP8266 ELSE p0
    IN  IF contains(p1, <<"3", "2">>) THEN ESP_PLATFORM_ESP32 ELSE p1

-----------------------------------------------------------------------------
(* Ordered mappings: a sequence of <<key, value>> with distinct keys *)

Keys(m) == [k \in 1..Len(m) |-> m[k][1]]
HasKey(m, key) == \E k \in 1..Len(m) : m[k][1] = key
GetItem(m, key) == m[CHOOSE k \in 1..Len(m) : m[k][1] = key][2]
SetItem(m, key, value) ==
    IF HasKey(m, key)
    THEN [k \in 1..Len(m) |-> IF m[k][1] = key THEN <<key, value>> ELSE m[k]]
    ELSE Append(m, <<key, value>>)
InList(x, s) == \E k \in 1..Len(s) : s[k] = x

-----------------------------------------------------------------------------
(* Trees of validated values, as the schemas build them *)

ID(decl, id, type) == [kind |-> "ID", is_declaration |-> decl, id |-> id, type |-> type]
Lambda(ids) == [kind |-> "Lambda", requires_ids |-> ids]
List(items) == [kind |-> "list", items |-> items]
Dict(items) == [kind |-> "dict", items |-> items]
Scalar == [kind |-> "scalar"]

(* Raw configuration nodes.  A schema is a black box of the registry: the   *)
(* node records the schema's verdict on it (valid) and the value the       *)
(* schema returns for it (out).  keys: the keys of a mapping; platform:    *)
(* the value under 'platform'; entries: what iterating the node yields.    *)
Conf(kind, keys, platform, valid, out, entries) ==
    [kind |-> kind, keys |-> keys, platform |-> platform, valid |-> valid,
     out |-> out, entries |-> entries]

\* The esphomeyaml domain also records which of its scalars cv.boolean rejects
CoreConf(keys, platform, bad, valid, out) ==
    [kind |-> "dict", keys |-> keys, platform |-> platform, valid |-> valid,
     out |-> out, entries |-> <<>>, bad |-> bad]

-----------------------------------------------------------------------------
(* The component registry: the modules importlib finds under               *)
(* esphomeyaml.components.  A module has only the attributes listed.       *)

Module(attrs) == [kind |-> "module"] @@ attrs

Registry ==
       "wifi"        :> Module([CONFIG_SCHEMA |-> TRUE])
    @@ "i2c"         :> Module([CONFIG_SCHEMA |-> TRUE])
    @@ "esp32_ble"   :> Module([CONFIG_SCHEMA |-> TRUE,
                                ESP_PLATFORMS |-> {ESP_PLATFORM_ESP32},
                                DEPENDENCIES |-> <<"i2c", "sensor">>])
    @@ "ads1115"     :> Module([CONFIG_SCHEMA |-> TRUE, DEPENDENCIES |-> <<"i2c">>])
    @@ "script"      :> Module([DEPENDENCIES |-> <<>>])
    @@ "sensor"      :> Module([PLATFORM_SCHEMA |-> TRUE])
    @@ "switch"      :> Module([CONFIG_SCHEMA |-> TRUE, PLATFORM_SCHEMA |-> TRUE])
    @@ "sensor.dht"  :> Module([PLATFORM_SCHEMA |-> TRUE])
    @@ "sensor.hall" :> Module([PLATFORM_SCHEMA |-> TRUE,
                                DEPENDENCIES |-> <<"i2c">>,
                                ESP_PLATFORMS |-> {ESP_PLATFORM_ESP32}])
    @@ "sensor.raw"  :> Module([DEPENDENCIES |-> <<>>])
    @@ "switch.gpio" :> Module([PLATFORM_SCHEMA |-> TRUE])

hasattr(obj, name) == name \in DOMAIN obj
getattr(obj, name, default) == IF name \in DOMAIN obj THEN obj[name] ELSE default

\* a lookup that answers an unknown name with a module without attributes
get_component_lenient(domain) ==
    IF domain \in DOMAIN Registry THEN Registry[domain] ELSE [kind |-> "module"]

\* _COMPONENT_CACHE only memoizes the import and is left out
get_component(domain) ==
    IF domain \in DOMAIN Registry THEN Registry[domain] ELSE NoneNode

get_platform(domain, platform) == get_component(domain \o "." \o platform)

is_platform_component(component) == hasattr(component, "PLATFORM_SCHEMA")

-----------------------------------------------------------------------------
(* Config.add_error and the error messages *)

\* an error list that grows at its front
add_error_front(errs, message, domain, cfg) ==
    <<[message |-> message, domain |-> domain, config |-> cfg]>> \o errs

\* config is kept as the node was when the error was recorded
add_error(errs, message, domain, cfg) ==
    Append(errs, [message |-> message, domain |-> domain, config |-> cfg])

\* _format_config_error reads config.get unless config is a list
format_error_raises(cfg) == cfg.kind \notin {"list", "dict"}

\* a schema violation that is swallowed
comp_error_silent(errs, domain, cfg) == errs

comp_error(errs, domain, cfg) ==
    add_error(errs, <<"Invalid config for [{}]: ", domain>>, domain, cfg)

\* One error per dependency that is not in _ALL_COMPONENTS, in list order
RECURSIVE dependency_errors(_, _, _, _)
dependency_errors(errs, dependencies, all, text) ==
    IF dependencies = <<>> THEN errs
    ELSE LET dependency == Head(dependencies)
             errs1 == IF InList(dependency, all) THEN errs
                      ELSE add_error(errs, text \o <<dependency>>, None, NoneNode)
         IN  dependency_errors(errs1, Tail(dependencies), all, text)

\* a dependency list that one configured name satisfies
dependencies_met_any(dependencies, all) ==
    dependencies = <<>> \/ \E k \in 1..Len(dependencies) : InList(dependencies[k], all)

dependencies_met(dependencies, all) ==
    \A k \in 1..Len(dependencies) : InList(dependencies[k], all)

-----------------------------------------------------------------------------
(* load_config *)

Raise(exception) ==
    /\ raised' = exception
    /\ pc' = "aborted"

\* lines 278-300: read the file, fix the target platform, then call validate_config
LoadConfig ==
    /\ pc = "load_config"
    /\ UNCHANGED <<path, ALL_COMPONENTS, result, errors, i, j, platforms,
                   declare_ids, searching_ids, returned>>
    /\ IF path.kind = "OSError"
       THEN /\ Raise(<<"ESPHomeYAMLError", "Could not read configuration file at {}">>)
            /\ UNCHANGED <<config, ESP_PLATFORM>>
       ELSE /\ config' = path.items
            /\ IF ~HasKey(path.items, CONF_ESPHOMEYAML)
               THEN /\ Raise(<<"ESPHomeYAMLError", "No esphomeyaml section in config">>)
                    /\ UNCHANGED ESP_PLATFORM
               ELSE LET core_conf == GetItem(path.items, CONF_ESPHOMEYAML) IN
                    IF core_conf.kind # "dict"
                    THEN /\ Raise(<<"TypeError", "argument is not iterable">>)
                         /\ UNCHANGED ESP_PLATFORM
                    ELSE IF CONF_PLATFORM \notin core_conf.keys
                    THEN /\ Raise(<<"ESPHomeYAMLError", "esphomeyaml.platform not specified.">>)
                         /\ UNCHANGED ESP_PLATFORM
                    ELSE /\ ESP_PLATFORM' = normalize_platform(core_conf.platform)
                         /\ IF CONF_BOARD \notin core_conf.keys
                            THEN Raise(<<"ESPHomeYAMLError", "esphomeyaml.board not specified.">>)
                            ELSE IF "simplify" \in core_conf.bad
                            THEN Raise(<<"Invalid", "invalid boolean value {}">>)
                            ELSE /\ pc' = "validate_config"
                                 /\ UNCHANGED raised

-----------------------------------------------------------------------------
(* validate_config *)

\* a required-component check that stops after esphomeyaml
missing_required_first_only(cfg) ==
    {k \in 1..1 : ~HasKey(cfg, REQUIRED_COMPONENTS[k])}

missing_required(cfg) ==
    {k \in 1..Len(REQUIRED_COMPONENTS) : ~HasKey(cfg, REQUIRED_COMPONENTS[k])}

\* lines 161-167: the required components, _ALL_COMPONENTS and the empty Config
CheckRequired ==
    /\ pc = "validate_config"
    /\ UNCHANGED <<path, config, ESP_PLATFORM, i, j, platforms, declare_ids,
                   searching_ids, returned>>
    /\ IF missing_required(config) # {}
       THEN /\ Raise(<<"ESPHomeYAMLError", "Component {} is required for esphomeyaml.",
                       REQUIRED_COMPONENTS[CHOOSE k \in missing_required(config) :
                           \A m \in missing_required(config) : k <= m]>>)
            /\ UNCHANGED <<ALL_COMPONENTS, result, errors>>
       ELSE /\ ALL_COMPONENTS' = Keys(config)
            /\ result' = <<>>
            /\ errors' = <<>>
            /\ pc' = "core"
            /\ UNCHANGED raised

\* lines 172-175: CORE_SCHEMA on the esphomeyaml domain
ValidateCore ==
    /\ pc = "core"
    /\ UNCHANGED <<path, config, raised, ESP_PLATFORM, ALL_COMPONENTS, j, platforms,
                   declare_ids, searching_ids, returned>>
    /\ LET core_conf == GetItem(config, CONF_ESPHOMEYAML) IN
       IF core_conf.valid
       THEN /\ result' = SetItem(result, CONF_ESPHOMEYAML, core_conf.out)
            /\ UNCHANGED errors
       ELSE /\ errors' = comp_error(errors, CONF_ESPHOMEYAML, Dict(config))
            /\ UNCHANGED result
    /\ pc' = "domain"
    /\ i' = 1

\* line 180-181: a domain given without a value is validated as {}
domain_conf(k) ==
    LET conf == config[k][2]
    IN  IF conf.kind = "None" THEN [conf EXCEPT !.kind = "dict"] ELSE conf

\* the for loop of line 177 moves on, or ends and do_id_pass starts (line 251)
NextDomain ==
    /\ i' = i + 1
    /\ pc' = IF i + 1 > Len(config) THEN "do_id_pass" ELSE "domain"

\* lines 177-212: one top-level domain up to its platform entries
ValidateDomain ==
    /\ pc = "domain"
    /\ UNCHANGED <<path, config, ESP_PLATFORM, ALL_COMPONENTS, declare_ids,
                   searching_ids, returned>>
    /\ LET domain == config[i][1]
           conf == domain_conf(i)
           component == get_component(domain)
           esp_platforms == getattr(component, "ESP_PLATFORMS", ESP_PLATFORMS)
           dependencies == getattr(component, "DEPENDENCIES", <<>>)
           Skip(errs) == /\ errors' = errs
                         /\ NextDomain
                         /\ UNCHANGED <<raised, result, j, platforms>>
       IN  IF domain = CONF_ESPHOMEYAML
           THEN Skip(errors)
           ELSE IF component = NoneNode
           THEN Skip(add_error(errors, <<"Component not found: {}", domain>>, None, NoneNode))
           ELSE IF ESP_PLATFORM \notin esp_platforms
           THEN Skip(add_error(errors, <<"Component {} doesn't support {}.", domain>>,
                               None, NoneNode))
           ELSE IF ~dependencies_met(dependencies, ALL_COMPONENTS)
           THEN Skip(dependency_errors(errors, dependencies, ALL_COMPONENTS,
                                       <<"Component {} requires component {}", domain>>))
           ELSE IF hasattr(component, "CONFIG_SCHEMA") /\ ~conf.valid
           THEN IF format_error_raises(conf)
                THEN /\ Raise(<<"AttributeError", "object has no attribute 'get'">>)
                     /\ UNCHANGED <<result, errors, i, j, platforms>>
                ELSE Skip(comp_error(errors, domain, conf))
           ELSE LET result1 == IF hasattr(component, "CONFIG_SCHEMA")
                               THEN SetItem(result, domain, conf.out)
                               ELSE result
                IN  IF ~hasattr(component, "PLATFORM_SCHEMA")
                    THEN /\ result' = result1
                         /\ NextDomain
                         /\ UNCHANGED <<raised, errors, j, platforms>>
                    ELSE IF conf.kind \notin {"list", "dict"}
                    THEN /\ result' = result1
                         /\ Raise(<<"TypeError", "object is not iterable">>)
                         /\ UNCHANGED <<errors, i, j, platforms>>
                    ELSE /\ result' = result1
                         /\ platforms' = <<>>
                         /\ j' = 1
                         /\ pc' = "entries"
                         /\ UNCHANGED <<raised, errors, i>>

\* lines 213-248: one entry of a platform-style domain
ValidateEntry ==
    /\ pc = "entries"
    /\ j <= Len(domain_conf(i).entries)
    /\ UNCHANGED <<path, config, pc, raised, ESP_PLATFORM, ALL_COMPONENTS, result, i,
                   declare_ids, searching_ids, returned>>
    /\ j' = j + 1
    /\ LET domain == config[i][1]
           p_config == domain_conf(i).entries[j]
           p_name == p_config.platform
           platform == get_platform(domain, p_name)
           dependencies == getattr(platform, "DEPENDENCIES", <<>>)
           esp_platforms == getattr(platform, "ESP_PLATFORMS", ESP_PLATFORMS)
           Skip(errs) == /\ errors' = errs
                         /\ UNCHANGED platforms
       IN  IF p_config.kind # "dict"
           THEN Skip(add_error(errors, <<"Platform schemas must have 'platform:' key">>,
                               None, NoneNode))
           ELSE IF p_name = None
           THEN Skip(add_error(errors, <<"No platform specified for {}", domain>>,
                               None, NoneNode))
           ELSE IF platform = NoneNode
           THEN Skip(add_error(errors, <<"Platform not found: {}.{}", domain, p_name>>,
                               None, NoneNode))
           ELSE IF ~dependencies_met(dependencies, ALL_COMPONENTS)
           THEN Skip(dependency_errors(errors, dependencies, ALL_COMPONENTS,
                         <<"Platform {}.{} requires component {}", domain, p_name>>))
           ELSE IF ESP_PLATFORM \notin esp_platforms
           THEN Skip(add_error(errors, <<"Platform {}.{} doesn't support {}.",
                                         domain, p_name>>, None, NoneNode))
           ELSE IF ~hasattr(platform, "PLATFORM_SCHEMA")
           THEN Skip(errors)
           ELSE IF ~p_config.valid
           THEN Skip(comp_error(errors, domain \o "." \o p_name, p_config))
           ELSE /\ platforms' = Append(platforms, p_config.out)
                /\ UNCHANGED errors

\* line 249: the validated entries replace whatever is under the domain
StoreDomain ==
    /\ pc = "entries"
    /\ j > Len(domain_conf(i).entries)
    /\ result' = SetItem(result, config[i][1], List(platforms))
    /\ NextDomain
    /\ UNCHANGED <<path, config, raised, ESP_PLATFORM, ALL_COMPONENTS, errors, j,
                   platforms, declare_ids, searching_ids, returned>>

-----------------------------------------------------------------------------
(* iter_ids and do_id_pass *)

RECURSIVE Flatten(_)
Flatten(seqs) == IF seqs = <<>> THEN <<>> ELSE Head(seqs) \o Flatten(Tail(seqs))

\* '.'.join(prefix)
RECURSIVE join(_)
join(prefix) ==
    IF Len(prefix) = 0 THEN ""
    ELSE IF Len(prefix) = 1 THEN prefix[1]
    ELSE prefix[1] \o "." \o join(Tail(prefix))

(* Every identifier below node, depth first: (id, prefix, parent) as the   *)
(* generator yields them.  at and k say which object the id is: the        *)
(* positions from the root to the node and, inside a Lambda, the index in  *)
(* requires_ids; Python gets this from object identity.                    *)
RECURSIVE iter_ids(_, _, _, _)
iter_ids(node, prefix, at, parent) ==
    CASE node.kind = "ID" ->
           << [id |-> node, prefix |-> prefix, config |-> parent, at |-> at, k |-> 0] >>
      [] node.kind = "Lambda" ->
           [k \in 1..Len(node.requires_ids) |->
               [id |-> node.requires_ids[k], prefix |-> prefix, config |-> parent,
                at |-> at, k |-> k]]
      [] node.kind = "list" ->
           Flatten([k \in 1..Len(node.items) |->
               iter_ids(node.items[k], prefix \o <<ToString(k - 1)>>, at \o <<k>>, node)])
      [] node.kind = "dict" ->
           Flatten([k \in 1..Len(node.items) |->
               iter_ids(node.items[k][2], prefix \o <<node.items[k][1]>>, at \o <<k>>, node)])
      [] OTHER -> <<>>

\* the identifier object at (at, k) gets the name `name`
RECURSIVE set_id(_, _, _, _)
set_id(node, at, k, name) ==
    IF at = <<>>
    THEN IF node.kind = "ID"
         THEN [node EXCEPT !.id = name]
         ELSE [node EXCEPT !.requires_ids[k].id = name]
    ELSE IF node.kind = "list"
         THEN [node EXCEPT !.items[Head(at)] = set_id(@, Tail(at), k, name)]
         ELSE [node EXCEPT !.items[Head(at)][2] = set_id(@, Tail(at), k, name)]

\* a pass that never takes a name for declared
declared_never(name, decls) == FALSE

declared(name, decls) == \E d \in 1..Len(decls) : decls[d].id.id = name

\* lines 135-142: file each identifier, refusing a declaration whose name is taken
RECURSIVE classify(_, _, _, _)
classify(ids, decls, refs, errs) ==
    IF ids = <<>> THEN [declare_ids |-> decls, searching_ids |-> refs, errors |-> errs]
    ELSE LET v == Head(ids) IN
         IF v.id.is_declaration
         THEN IF v.id.id # None /\ declared(v.id.id, decls)
              THEN classify(Tail(ids), decls, refs,
                            add_error(errs, <<"ID {} redefined!", v.id.id>>,
                                      join(v.prefix), v.config))
              ELSE classify(Tail(ids), Append(decls, v), refs, errs)
         ELSE classify(Tail(ids), decls, Append(refs, v), errs)

\* ID.resolve: an unnamed declaration gets a name that no registered id has
generated_name(type, registered) ==
    LET n == CHOOSE n \in 1..(Len(registered) + 1) :
                 /\ ~InList(type \o "_" \o ToString(n), registered)
                 /\ \A m \in 1..(n - 1) : InList(type \o "_" \o ToString(m), registered)
    IN  type \o "_" \o ToString(n)

resolve(id, registered) ==
    IF id.id = None THEN generated_name(id.type, registered) ELSE id.id

\* lines 144-145: resolve the declarations in order, each seeing the names so far
RECURSIVE resolve_all(_, _)
resolve_all(decls, d) ==
    IF d > Len(decls) THEN decls
    ELSE resolve_all(
             [decls EXCEPT ![d].id.id =
                 resolve(decls[d].id, [m \in 1..Len(decls) |-> decls[m].id.id])],
             d + 1)

\* binding to the last declaration of the type
last_of_type(type, decls) ==
    IF \E d \in 1..Len(decls) : decls[d].id.type = type
    THEN decls[CHOOSE d \in 1..Len(decls) :
                  /\ decls[d].id.type = type
                  /\ \A m \in (d + 1)..Len(decls) : decls[m].id.type # type].id.id
    ELSE None

\* line 152: the id of the first declaration of the type, or None
first_of_type(type, decls) ==
    IF \E d \in 1..Len(decls) : decls[d].id.type = type
    THEN decls[CHOOSE d \in 1..Len(decls) :
                  /\ decls[d].id.type = type
                  /\ \A m \in 1..(d - 1) : decls[m].id.type # type].id.id
    ELSE None

\* lines 148-155: check or bind every reference, in order
RECURSIVE search_all(_, _, _, _)
search_all(refs, r, decls, errs) ==
    IF r > Len(refs) THEN [searching_ids |-> refs, errors |-> errs]
    ELSE LET v == refs[r]
             errs1 == IF v.id.id # None /\ ~declared(v.id.id, decls)
                      THEN add_error(errs, <<"Couldn't find ID {}", v.id.id>>,
                                     join(v.prefix), v.config)
                      ELSE errs
             bind == v.id.id = None /\ v.id.type # None
             found == first_of_type(v.id.type, decls)
             errs2 == IF bind /\ found = None
                      THEN add_error(errs1, <<"Couldn't resolve ID for type {}", v.id.type>>,
                                     join(v.prefix), v.config)
                      ELSE errs1
         IN  search_all(IF bind THEN [refs EXCEPT ![r].id.id = found] ELSE refs,
                        r + 1, decls, errs2)

\* the tree with the names of the identifiers in ids written back
RECURSIVE write_back(_, _)
write_back(tree, ids) ==
    IF ids = <<>> THEN tree
    ELSE write_back(set_id(tree, Head(ids).at, Head(ids).k, Head(ids).id.id), Tail(ids))

\* a pass over the raw input: every domain and every entry, validated or not
walked_raw ==
    Dict([k \in 1..Len(config) |->
            <<config[k][1],
              IF config[k][2].kind = "list"
              THEN List([e \in 1..Len(config[k][2].entries) |-> config[k][2].entries[e].out])
              ELSE config[k][2].out>>])

\* line 135: the pass walks the Config that validate_config has built
walked == Dict(result)

IdClassify ==
    /\ pc = "do_id_pass"
    /\ LET filed == classify(iter_ids(walked, <<>>, <<>>, Dict(<<>>)),
                             <<>>, <<>>, errors)
       IN  /\ declare_ids' = filed.declare_ids
           /\ searching_ids' = filed.searching_ids
           /\ errors' = filed.errors
    /\ pc' = "declare"
    /\ UNCHANGED <<path, config, raised, ESP_PLATFORM, ALL_COMPONENTS, result, i, j,
                   platforms, returned>>

IdDeclare ==
    /\ pc = "declare"
    /\ declare_ids' = resolve_all(declare_ids, 1)
    /\ result' = write_back(Dict(result), declare_ids').items
    /\ pc' = "search"
    /\ UNCHANGED <<path, config, raised, ESP_PLATFORM, ALL_COMPONENTS, errors, i, j,
                   platforms, searching_ids, returned>>

IdSearch ==
    /\ pc = "search"
    /\ LET done == search_all(searching_ids, 1, declare_ids, errors)
       IN  /\ searching_ids' = done.searching_ids
           /\ errors' = done.errors
           /\ result' = write_back(Dict(result), done.searching_ids).items
    /\ pc' = "return"
    /\ UNCHANGED <<path, config, raised, ESP_PLATFORM, ALL_COMPONENTS, i, j, platforms,
                   declare_ids, returned>>

\* lines 252 and 310: the Config goes back to the caller
Return ==
    /\ pc = "return"
    /\ returned' = TRUE
    /\ pc' = "done"
    /\ UNCHANGED <<path, config, raised, ESP_PLATFORM, ALL_COMPONENTS, result, errors,
                   i, j, platforms, declare_ids, searching_ids>>

-----------------------------------------------------------------------------
(* The configurations explored *)

RECURSIVE SeqsUpTo(_, _)
SeqsUpTo(S, n) ==
    IF n = 0 THEN {<<>>}
    ELSE LET shorter == SeqsUpTo(S, n - 1)
         IN  shorter \cup {Append(s, x) : s \in {t \in shorter : Len(t) = n - 1}, x \in S}

DistinctKeys(m) == \A a, b \in 1..Len(m) : m[a][1] = m[b][1] => a = b

Entry(name) == <<name, Scalar>>

\* what CORE_SCHEMA returns: plain, or with one on_boot automation
CoreOut == Dict(<<Entry("name"), Entry("platform"), Entry("board")>>)
CoreOutBoot ==
    Dict(<<Entry("name"), Entry("platform"), Entry("board"),
           <<"on_boot", List(<<Dict(<<
               <<"trigger_id", ID(TRUE, None, "StartupTrigger")>> >>)>>)>> >>)

AllCoreKeys == {CONF_NAME, CONF_PLATFORM, CONF_BOARD}
CoreValid(platform, out) == CoreConf(AllCoreKeys, platform, {}, TRUE, out)
CoreInvalid(keys, platform, bad) == CoreConf(keys, platform, bad, FALSE, NoneNode)

CoreOptions ==
    {CoreValid(p, CoreOut) : p \in {"esp32", "ESP8266", "nodemcu-32s", "avr"}}
    \cup {CoreValid("esp32", CoreOutBoot),
          CoreInvalid(AllCoreKeys, "esp32", {}),
          CoreInvalid(AllCoreKeys, "esp32", {"simplify"}),
          CoreInvalid(AllCoreKeys \ {CONF_NAME}, "esp32", {}),
          CoreInvalid(AllCoreKeys \ {CONF_PLATFORM}, None, {}),
          CoreInvalid(AllCoreKeys \ {CONF_BOARD}, "ESP8266", {}),
          Conf("None", {}, None, FALSE, NoneNode, <<>>)}

Good(out) == Conf("dict", {}, None, TRUE, out, <<>>)
Bad == Conf("dict", {}, None, FALSE, NoneNode, <<>>)
BadScalar == Conf("scalar", {}, None, FALSE, NoneNode, <<>>)
Empty == Conf("None", {}, None, TRUE, Dict(<<>>), <<>>)
PlatformList(valid, entries) ==
    Conf("list", {}, None, valid, IF valid THEN Dict(<<Entry("opt")>>) ELSE NoneNode, entries)

\* entries of a platform-style domain
PlatformEntry(platform, valid, out) ==
    Conf("dict", {CONF_PLATFORM}, platform, valid, out, <<>>)
NotAMapping == Conf("scalar", {}, None, FALSE, NoneNode, <<>>)
NoPlatformKey == Conf("dict", {}, None, FALSE, NoneNode, <<>>)
DhtOut == Dict(<<Entry("platform"), <<"id", ID(TRUE, "t", "Sensor")>>,
                 <<"uses", ID(FALSE, "h", None)>> >>)
HallOut == Dict(<<Entry("platform"), <<"id", ID(TRUE, "h", "Sensor")>> >>)

EntryOptions ==
    {NotAMapping, NoPlatformKey,
     PlatformEntry("nope", TRUE, Dict(<<Entry("platform")>>)),
     PlatformEntry("raw", TRUE, Dict(<<Entry("platform")>>)),
     PlatformEntry("dht", TRUE, DhtOut),
     PlatformEntry("dht", FALSE, NoneNode),
     PlatformEntry("hall", TRUE, HallOut),
     PlatformEntry("hall", FALSE, NoneNode)}

I2cOut == Dict(<<Entry("sda"), <<"id", ID(TRUE, "bus", "I2CComponent")>> >>)
AdsOut == Dict(<<Entry("address"), <<"i2c_id", ID(FALSE, None, "I2CComponent")>>,
                 <<"id", ID(TRUE, "bus", "ADS1115Component")>> >>)

\* the values a top-level domain is given
DomainOptions(domain) ==
    CASE domain = "wifi" -> {Good(Dict(<<Entry("ssid")>>)), Bad}
      [] domain = "i2c" -> {Good(I2cOut), Bad, BadScalar, Empty}
      [] domain = "esp32_ble" -> {Good(Dict(<<Entry("scan")>>)), Bad}
      [] domain = "ads1115" -> {Good(AdsOut), Bad}
      [] domain = "script" -> {Good(NoneNode)}
      [] domain = "bogus" -> {Good(NoneNode)}
      [] domain = "sensor" ->
           {Empty, BadScalar,
            Conf("dict", {"platform"}, "dht", TRUE, NoneNode, <<NotAMapping>>),
            PlatformList(TRUE, <<PlatformEntry("dht", TRUE, DhtOut)>>),
            PlatformList(TRUE, <<PlatformEntry("hall", TRUE, HallOut)>>)}
      [] domain = "switch" ->
           {PlatformList(FALSE, <<PlatformEntry("gpio", TRUE, DhtOut)>>),
            PlatformList(TRUE, <<PlatformEntry("gpio", TRUE, DhtOut)>>),
            PlatformList(TRUE, <<PlatformEntry("gpio", FALSE, NoneNode)>>)}
      [] OTHER -> {}

ExtraDomains == {"i2c", "esp32_ble", "ads1115", "script", "bogus", "sensor", "switch"}

Items(domains) == UNION {{<<d, c>> : c \in DomainOptions(d)} : d \in domains}

\* the required domains first or last, around the other domains
Layout(first, core, wifi, extras) ==
    IF first THEN <<<<CONF_ESPHOMEYAML, core>>, <<CONF_WIFI, wifi>>>> \o extras
    ELSE extras \o <<<<CONF_WIFI, wifi>>, <<CONF_ESPHOMEYAML, core>>>>

Layouts(core, wifi, extras) == {Layout(first, core, wifi, extras) : first \in BOOLEAN}

\* every value of the esphomeyaml domain, the required domains present or not
CoreRuns ==
    UNION {UNION {Layouts(core, wifi, extras)
                  \cup {<<<<CONF_ESPHOMEYAML, core>>>> \o extras,
                        <<<<CONF_WIFI, wifi>>>> \o extras, extras} :
                  core \in CoreOptions, wifi \in DomainOptions("wifi")} :
           extras \in SeqsUpTo(Items({"i2c", "bogus"}), 1)}

\* up to MaxExtra other domains, in every order
DomainRuns ==
    {Layout(first, core, Good(Dict(<<Entry("ssid")>>)), extras) :
        first \in BOOLEAN,
        core \in {CoreValid("esp32", CoreOutBoot), CoreValid("ESP8266", CoreOut),
                  CoreInvalid(AllCoreKeys \ {CONF_NAME}, "esp32", {})},
        extras \in {m \in SeqsUpTo(Items(ExtraDomains), MaxExtra) : DistinctKeys(m)}}

\* a platform-style domain of up to MaxEntries entries, with or without i2c
EntryRuns ==
    {<<<<CONF_ESPHOMEYAML, core>>, <<CONF_WIFI, Good(Dict(<<Entry("ssid")>>))>>>>
     \o before \o <<<<"sensor", PlatformList(TRUE, entries)>>>> :
        before \in {<<>>, <<<<"i2c", Good(I2cOut)>>>>},
        core \in {CoreValid("esp32", CoreOut), CoreValid("ESP8266", CoreOut)},
        entries \in SeqsUpTo(EntryOptions, MaxEntries)}

\* a validated value holding up to MaxItems identifiers, lambdas and lists
IdOptions ==
    {ID(TRUE, "a", "T"), ID(TRUE, "b", "U"), ID(TRUE, None, "T"),
     ID(FALSE, "a", None), ID(FALSE, "c", "T"), ID(FALSE, None, "T"),
     ID(FALSE, None, "U"), ID(FALSE, None, None),
     Lambda(<<ID(FALSE, "a", None), ID(FALSE, "b", None)>>),
     List(<<ID(TRUE, "a", "U"), ID(FALSE, None, "U"), ID(FALSE, "a", None)>>),
     Scalar}

IdTrees ==
    {Dict([k \in 1..Len(values) |-> <<"k" \o ToString(k), values[k]>>]) :
     values \in SeqsUpTo(IdOptions, MaxItems)}

IdRuns ==
    {<<<<CONF_ESPHOMEYAML, CoreValid("esp32", CoreOut)>>,
       <<CONF_WIFI, Good(Dict(<<Entry("ssid")>>))>>,
       <<"i2c", Good(tree)>>>> : tree \in IdTrees}

\* what load_yaml does with the path: it fails, or yields one of the mappings
Inputs(runs) ==
    CASE runs = "unreadable" -> {[kind |-> "OSError"]}
      [] runs = "core" -> {Dict(cfg) : cfg \in CoreRuns}
      [] runs = "domain" -> {Dict(cfg) : cfg \in DomainRuns}
      [] runs = "entry" -> {Dict(cfg) : cfg \in EntryRuns}
      [] runs = "id" -> {Dict(cfg) : cfg \in IdRuns}

NoException == <<>>

\* a run of load_config(path), or validate_config(config) called on its own
Init ==
    /\ \/ /\ \E runs \in {"unreadable", "core", "domain", "entry", "id"} :
                path \in Inputs(runs)
          /\ config = <<>>
          /\ pc = "load_config"
          /\ ESP_PLATFORM = <<>>
       \/ /\ path = NoneNode
          /\ config \in CoreRuns
          /\ pc = "validate_config"
          /\ ESP_PLATFORM = ESP_PLATFORM_ESP32
    /\ raised = NoException
    /\ ALL_COMPONENTS = <<>>
    /\ result = <<>>
    /\ errors = <<>>
    /\ i = 0
    /\ j = 0
    /\ platforms = <<>>
    /\ declare_ids = <<>>
    /\ searching_ids = <<>>
    /\ returned = FALSE

Next ==
    \/ LoadConfig
    \/ CheckRequired
    \/ ValidateCore
    \/ ValidateDomain
    \/ ValidateEntry
    \/ StoreDomain
    \/ IdClassify
    \/ IdDeclare
    \/ IdSearch
    \/ Return

Spec == Init /\ [][Next]_vars

-----------------------------------------------------------------------------
(* Vocabulary of the properties, read from the raw input and the registry *)

IsPrefix(s, t) == Len(s) <= Len(t) /\ SubSeq(t, 1, Len(s)) = s
Added(old, new) == SubSeq(new, Len(old) + 1, Len(new))
RawNames == {config[k][1] : k \in 1..Len(config)}
Known(name) == name \in DOMAIN Registry
Supports(name) ==
    IF "ESP_PLATFORMS" \in DOMAIN Registry[name]
    THEN ESP_PLATFORM \in Registry[name].ESP_PLATFORMS
    ELSE ESP_PLATFORM \in {ESP_PLATFORM_ESP32, ESP_PLATFORM_ESP8266}
Depends(name) ==
    IF "DEPENDENCIES" \in DOMAIN Registry[name] THEN Registry[name].DEPENDENCIES ELSE <<>>
MissingNames(name) == SelectSeq(Depends(name), LAMBDA dep : dep \notin RawNames)
HasSchema(name, schema) == schema \in DOMAIN Registry[name]
WithMessage(errs, message) == SelectSeq(errs, LAMBDA e : e.message = message)
Plain(message) == [message |-> message, domain |-> None, config |-> NoneNode]
LoopGoesOn == /\ i' = i + 1
              /\ pc' = IF i = Len(config) THEN "do_id_pass" ELSE "domain"
              /\ raised' = raised

RequiredMissing == ~HasKey(config, "esphomeyaml") \/ ~HasKey(config, "wifi")
FirstMissing == IF ~HasKey(config, "esphomeyaml") THEN "esphomeyaml" ELSE "wifi"
\* load_config let the configuration through to validate_config
LoadPassed ==
    /\ HasKey(config, "esphomeyaml")
    /\ LET c == GetItem(config, "esphomeyaml")
       IN  c.kind = "dict" /\ {"platform", "board"} \subseteq c.keys /\ c.bad = {}

-----------------------------------------------------------------------------
(* C1: when a required domain (esphomeyaml, wifi) is not a top-level key,  *)
(* validate_config raises before anything else: the run is aborted with    *)
(* the fatal error naming the first missing domain, no domain was visited, *)
(* the error list and the result are empty and no Config is returned.      *)
C1_MissingRequiredIsFatal ==
    (RequiredMissing /\ pc \notin {"load_config", "validate_config"}) =>
        /\ pc = "aborted"
        /\ ~returned
        /\ errors = <<>> /\ result = <<>>
        /\ ALL_COMPONENTS = <<>> /\ i = 0 /\ j = 0
        /\ declare_ids = <<>> /\ searching_ids = <<>>
        /\ (path = NoneNode \/ LoadPassed) =>
              raised = <<"ESPHomeYAMLError", "Component {} is required for esphomeyaml.",
                         FirstMissing>>

C1_Witness ==
    /\ pc = "aborted"
    /\ path # NoneNode
    /\ HasKey(config, "esphomeyaml") /\ ~HasKey(config, "wifi") /\ Len(config) = 2
    /\ raised = <<"ESPHomeYAMLError", "Component {} is required for esphomeyaml.", "wifi">>

-----------------------------------------------------------------------------
(* C4: a top-level domain other than esphomeyaml that the registry does    *)
(* not know gets no entry in the result and exactly one "Component not     *)
(* found" error, and the loop goes on to the next top-level domain.        *)
C4_Done ==
    pc = "done" =>
        /\ i = Len(config) + 1
        /\ \A k \in 1..Len(config) :
              LET domain == config[k][1] IN
              (domain # "esphomeyaml" /\ ~Known(domain)) =>
                 /\ ~HasKey(result, domain)
                 /\ Len(WithMessage(errors, <<"Component not found: {}", domain>>)) = 1

C4_Step ==
    (pc = "domain" /\ config[i][1] # "esphomeyaml" /\ ~Known(config[i][1])) =>
        /\ result' = result
        /\ errors' = Append(errors, Plain(<<"Component not found: {}", config[i][1]>>))
        /\ LoopGoesOn

C4_ComponentNotFound == [][C4_Step /\ C4_Done']_vars

C4_Witness ==
    /\ pc = "done"
    /\ Len(config) = 4
    /\ config[3][1] = "bogus"
    /\ HasKey(result, config[4][1])
    /\ Len(errors) = 1

-----------------------------------------------------------------------------
(* C3: for a top-level domain other than esphomeyaml that is registered    *)
(* and supports the target platform, a dependency is met exactly when its  *)
(* name is a raw top-level key.  With a dependency unmet the domain gets   *)
(* one "requires component" error per missing name and nothing else: no    *)
(* entry in the result, no schema verdict.  With all met, no such error    *)
(* is recorded and the component schema decides.                           *)
C3_Applies(k) ==
    /\ config[k][1] # "esphomeyaml"
    /\ Known(config[k][1])
    /\ Supports(config[k][1])

C3_Errors(domain) ==
    [m \in 1..Len(MissingNames(domain)) |->
        Plain(<<"Component {} requires component {}", domain, MissingNames(domain)[m]>>)]

C3_Step ==
    (pc = "domain" /\ C3_Applies(i)) =>
        LET domain == config[i][1] IN
        IF MissingNames(domain) # <<>>
        THEN /\ result' = result
             /\ errors' = errors \o C3_Errors(domain)
             /\ LoopGoesOn
        ELSE /\ \A e \in 1..Len(errors') :
                   errors'[e].message[1] # "Component {} requires component {}"
                   \/ e <= Len(errors)
             /\ (HasSchema(domain, "CONFIG_SCHEMA") /\ config[i][2].valid)
                   => HasKey(result', domain)

C3_Done ==
    pc = "done" =>
        \A k \in 1..Len(config) :
            (C3_Applies(k) /\ MissingNames(config[k][1]) # <<>>) =>
                /\ ~HasKey(result, config[k][1])
                /\ \A e \in 1..Len(errors) :
                      errors[e].message # <<"Invalid config for [{}]: ", config[k][1]>>
                /\ \A m \in 1..Len(MissingNames(config[k][1])) :
                      Len(WithMessage(errors, C3_Errors(config[k][1])[m].message)) = 1

C3_MissingDependency == [][C3_Step /\ C3_Done']_vars

\* esp32_ble needs i2c and sensor: i2c is a top-level key that its own schema
\* rejects, sensor is absent, and the value of esp32_ble is itself invalid
C3_Witness ==
    /\ pc = "done"
    /\ HasKey(config, "i2c") /\ ~GetItem(config, "i2c").valid
    /\ HasKey(config, "esp32_ble") /\ ~GetItem(config, "esp32_ble").valid
    /\ ESP_PLATFORM = ESP_PLATFORM_ESP32
    /\ Len(WithMessage(errors, <<"Component {} requires component {}", "esp32_ble", "sensor">>)) = 1
    /\ ~HasKey(result, "esp32_ble")

-----------------------------------------------------------------------------
(* C5 as stated: in a load_config run whose esphomeyaml domain is present  *)
(* but violates CORE_SCHEMA in any way (a missing name, platform or board  *)
(* included), the run does not abort before the domains are validated.     *)
C5_CoreInvalid ==
    /\ path # NoneNode
    /\ ~RequiredMissing
    /\ ~GetItem(config, "esphomeyaml").valid

C5_Error ==
    [message |-> <<"Invalid config for [{}]: ", "esphomeyaml">>,
     domain |-> "esphomeyaml", config |-> Dict(config)]

C5_Inv ==
    C5_CoreInvalid =>
        IF LoadPassed
        THEN /\ ~(pc = "aborted" /\ i = 0)
             /\ pc \notin {"load_config", "validate_config", "core", "aborted"} =>
                   /\ ~HasKey(result, "esphomeyaml")
                   /\ errors # <<>> /\ errors[1] = C5_Error
                   /\ Len(WithMessage(errors, C5_Error.message)) = 1
             /\ pc = "done" => i = Len(config) + 1
        ELSE /\ pc = "aborted" /\ i = 0
             /\ errors = <<>> /\ result = <<>> /\ ~returned

C5_Step ==
    (pc = "core" /\ ~GetItem(config, "esphomeyaml").valid) =>
        /\ pc' = "domain" /\ i' = 1 /\ raised' = raised
        /\ result' = result
        /\ errors' = Append(errors, C5_Error)

-----------------------------------------------------------------------------
(* C2 as stated: once a platform-style domain has passed its own gates,    *)
(* the value stored under it is the list, in input order, of the entries   *)
(* that are mappings with a platform key, whose platform is registered,    *)
(* supports the target, has its dependencies and, when it has a schema,    *)
(* accepts the entry; each entry that is not a mapping or has no platform  *)
(* key adds exactly one error.                                             *)
C2_DomainPasses(k) ==
    LET domain == config[k][1] IN
    /\ domain # "esphomeyaml"
    /\ Known(domain)
    /\ HasSchema(domain, "PLATFORM_SCHEMA")
    /\ Supports(domain)
    /\ MissingNames(domain) = <<>>
    /\ HasSchema(domain, "CONFIG_SCHEMA") => config[k][2].valid

C2_EntryPasses(domain, entry) ==
    /\ entry.kind = "dict"
    /\ entry.platform # None
    /\ LET name == domain \o "." \o entry.platform IN
       /\ Known(name)
       /\ Supports(name)
       /\ MissingNames(name) = <<>>
       /\ HasSchema(name, "PLATFORM_SCHEMA") => entry.valid

C2_Kept(k) ==
    LET passing == SelectSeq(config[k][2].entries,
                             LAMBDA entry : C2_EntryPasses(config[k][1], entry))
    IN  [e \in 1..Len(passing) |-> passing[e].out]

C2_Malformed(k) ==
    SelectSeq(config[k][2].entries,
              LAMBDA entry : entry.kind # "dict" \/ entry.platform = None)

C2_MalformedErrors ==
    SelectSeq(errors, LAMBDA e :
        e.message[1] \in {"Platform schemas must have 'platform:' key",
                          "No platform specified for {}"})

\* Taken with one domain besides esphomeyaml and wifi, so that every
\* malformed-entry error of the run belongs to the domain looked at.
C2_AsStated ==
    (pc \in {"domain", "do_id_pass"} /\ i >= 2 /\ Len(config) = 3
     /\ C2_DomainPasses(i - 1)) =>
        /\ HasKey(result, config[i - 1][1])
        /\ GetItem(result, config[i - 1][1]) = List(C2_Kept(i - 1))
        /\ Len(C2_MalformedErrors) = Len(C2_Malformed(i - 1))

-----------------------------------------------------------------------------
(* C6 as stated: a platform entry whose platform does not support the      *)
(* target yields exactly one "doesn't support" error and is skipped, with  *)
(* no "requires component" error for it, whatever dependencies it lacks.   *)
C6_AsStated ==
    (pc = "entries" /\ j >= 2) =>
        LET domain == config[i][1]
            entry == domain_conf(i).entries[j - 1]
        IN  (/\ entry.kind = "dict"
             /\ entry.platform # None
             /\ Known(domain \o "." \o entry.platform)
             /\ ~Supports(domain \o "." \o entry.platform)) =>
                /\ errors # <<>>
                /\ errors[Len(errors)] =
                      Plain(<<"Platform {}.{} doesn't support {}.", domain, entry.platform>>)
                /\ \A e \in 1..Len(errors) :
                      errors[e].message[1] # "Platform {}.{} requires component {}"

-----------------------------------------------------------------------------
(* Vocabulary of the identifier properties *)

Found == iter_ids(Dict(result), <<>>, <<>>, Dict(<<>>))
DeclaredAs(name) ==
    SelectSeq(Found, LAMBDA v : v.id.is_declaration /\ v.id.id = name)
DeclaredNames ==
    LET found == Found
    IN  {found[f].id.id : f \in {g \in 1..Len(found) : found[g].id.is_declaration}}
Repeated == {name \in DeclaredNames \ {None} : Len(DeclaredAs(name)) >= 2}

RECURSIVE NodeAt(_, _)
NodeAt(node, at) ==
    IF at = <<>> THEN node
    ELSE IF node.kind = "list" THEN NodeAt(node.items[Head(at)], Tail(at))
    ELSE NodeAt(node.items[Head(at)][2], Tail(at))
\* the identifier object that the entry v of declare_ids or searching_ids stands for
IdIn(tree, v) ==
    IF v.k = 0 THEN NodeAt(tree, v.at) ELSE NodeAt(tree, v.at).requires_ids[v.k]

RECURSIVE LexLess(_, _)
LexLess(a, b) ==
    IF a = <<>> THEN b # <<>>
    ELSE IF b = <<>> THEN FALSE
    ELSE Head(a) < Head(b) \/ (Head(a) = Head(b) /\ LexLess(Tail(a), Tail(b)))
\* depth first: keys in insertion order, items by index, requires_ids by index
Before(x, y) == LexLess(x.at, y.at) \/ (x.at = y.at /\ x.k < y.k)

ResolverTexts ==
    {"ID {} redefined!", "Couldn't find ID {}", "Couldn't resolve ID for type {}"}

-----------------------------------------------------------------------------
(* C7: when k >= 2 declarations of the validated tree carry one explicit   *)
(* name, do_id_pass accepts only the first in discovery order and records  *)
(* exactly k - 1 "redefined" errors, the m-th labelled with the path of    *)
(* the (m+1)-th declaration; a reference to the name is not reported.      *)
C7_DuplicateIdentifier ==
    pc \in {"declare", "search", "return", "done"} =>
        \A name \in Repeated :
            LET all == DeclaredAs(name)
                accepted == SelectSeq(declare_ids, LAMBDA v : v.id.id = name)
                redefined == WithMessage(errors, <<"ID {} redefined!", name>>)
            IN  /\ Len(accepted) = 1
                /\ accepted[1].at = all[1].at /\ accepted[1].k = all[1].k
                /\ Len(redefined) = Len(all) - 1
                /\ \A m \in 1..Len(redefined) :
                      redefined[m].domain = join(all[m + 1].prefix)
                /\ pc \in {"return", "done"} =>
                      WithMessage(errors, <<"Couldn't find ID {}", name>>) = <<>>

C7_Witness ==
    /\ pc = "done"
    /\ \E name \in Repeated :
          /\ Len(DeclaredAs(name)) = 3
          /\ Len(WithMessage(errors, <<"ID {} redefined!", name>>)) = 2
          /\ \E r \in 1..Len(searching_ids) : searching_ids[r].id.id = name

-----------------------------------------------------------------------------
(* C8: the search step treats every unnamed reference as follows.  Typed,  *)
(* with an accepted declaration of its type: it gets the name of the first *)
(* such declaration in discovery order and no error.  Typed, with none:    *)
(* it stays unnamed and one "Couldn't resolve ID for type" error is        *)
(* recorded for it.  Untyped: it stays unnamed and nothing is recorded, so *)
(* the step adds one error per unresolved named or typed reference and no  *)
(* other.                                                                  *)
C8_OfType(type) == {d \in 1..Len(declare_ids) : declare_ids[d].id.type = type}
C8_Unresolvable(v) ==
    v.id.id = None /\ v.id.type # None /\ C8_OfType(v.id.type) = {}
C8_Unresolved(v) ==
    v.id.id # None /\ \A d \in 1..Len(declare_ids) : declare_ids[d].id.id # v.id.id

C8_Step ==
    pc = "search" =>
        /\ \A r \in 1..Len(searching_ids) :
              LET v == searching_ids[r]
                  after == IdIn(Dict(result'), v)
                  own == SelectSeq(Added(errors, errors'), LAMBDA e :
                             /\ e.domain = join(v.prefix)
                             /\ e.message = <<"Couldn't resolve ID for type {}", v.id.type>>)
                  alike == {q \in 1..Len(searching_ids) :
                               /\ searching_ids[q].prefix = v.prefix
                               /\ searching_ids[q].id = v.id}
              IN  v.id.id = None =>
                     /\ searching_ids'[r].id = after
                     /\ IF v.id.type = None
                        THEN after.id = None
                        ELSE IF C8_OfType(v.id.type) # {}
                        THEN /\ \E d \in C8_OfType(v.id.type) :
                                   /\ \A c \in C8_OfType(v.id.type) \ {d} :
                                         Before(declare_ids[d], declare_ids[c])
                                   /\ after.id = declare_ids[d].id.id
                             /\ after.id # None
                             /\ own = <<>>
                        ELSE /\ after.id = None
                             /\ Len(own) = Cardinality(alike)
        /\ Len(Added(errors, errors')) =
              Cardinality({r \in 1..Len(searching_ids) :
                  C8_Unresolvable(searching_ids[r]) \/ C8_Unresolved(searching_ids[r])})

C8_UnnamedReferences == [][C8_Step]_vars

\* an unnamed declaration of T, then a named one, then an unnamed reference to T
C8_Witness ==
    /\ pc = "done"
    /\ HasKey(config, "i2c")
    /\ GetItem(config, "i2c").out =
          Dict(<< <<"k1", ID(TRUE, None, "T")>>, <<"k2", ID(TRUE, "a", "T")>>,
                  <<"k3", ID(FALSE, None, "T")>> >>)
    /\ GetItem(result, "i2c").items[3][2] = ID(FALSE, "T_1", "T")
    /\ errors = <<>>

-----------------------------------------------------------------------------
(* C9: do_id_pass sees the validated tree only.  The identifiers it files  *)
(* are exactly those of the result mapping, each once, so nothing of a     *)
(* domain or entry left out of the result is declared, resolved or         *)
(* reported; and a named reference is free of a "Couldn't find ID" error   *)
(* exactly when an accepted declaration of the result carries its name,    *)
(* with exactly one such error otherwise.                                  *)
C9_Filed == declare_ids \o searching_ids

C9_Accepted(name) ==
    \E d \in 1..Len(declare_ids) :
        /\ declare_ids[d].id.id = name
        /\ IdIn(Dict(result), declare_ids[d]) = declare_ids[d].id

C9_ValidatedTreeOnly ==
    pc \in {"declare", "search", "return", "done"} =>
        LET found == Found
            filed == C9_Filed
        IN
        /\ \A x \in 1..Len(filed) :
              /\ \E f \in 1..Len(found) :
                    /\ found[f].at = filed[x].at /\ found[f].k = filed[x].k
                    /\ found[f].prefix = filed[x].prefix
                    /\ found[f].id = filed[x].id
              /\ HasKey(result, filed[x].prefix[1])
              /\ \A y \in 1..Len(filed) :
                    (filed[x].at = filed[y].at /\ filed[x].k = filed[y].k) => x = y
        /\ Len(filed) + Len(SelectSeq(errors, LAMBDA e : e.message[1] = "ID {} redefined!"))
              = Len(found)
        /\ \A e \in 1..Len(errors) :
              errors[e].message[1] \in ResolverTexts =>
                 \E f \in 1..Len(found) : join(found[f].prefix) = errors[e].domain
        /\ pc \in {"return", "done"} =>
              \A r \in 1..Len(searching_ids) :
                 LET v == searching_ids[r]
                     reported == SelectSeq(errors, LAMBDA e :
                                    /\ e.message = <<"Couldn't find ID {}", v.id.id>>
                                    /\ e.domain = join(v.prefix))
                     alike == {q \in 1..Len(searching_ids) :
                                  /\ searching_ids[q].prefix = v.prefix
                                  /\ searching_ids[q].id.id = v.id.id}
                 IN  v.id.id # None =>
                        IF C9_Accepted(v.id.id) THEN reported = <<>>
                        ELSE Len(reported) = Cardinality(alike)

\* hall is left out on ESP8266, so the name h it declares is unknown to dht
C9_Witness ==
    /\ pc = "done"
    /\ ESP_PLATFORM = ESP_PLATFORM_ESP8266
    /\ HasKey(config, "sensor") /\ HasKey(config, "i2c")
    /\ GetItem(config, "sensor").entries =
          <<PlatformEntry("hall", TRUE, HallOut), PlatformEntry("dht", TRUE, DhtOut)>>
    /\ Len(WithMessage(errors, <<"Couldn't find ID {}", "h">>)) = 1
    /\ errors[Len(errors)].domain = "sensor.0.uses"
    /\ \A d \in 1..Len(declare_ids) : declare_ids[d].id.id # "h"

-----------------------------------------------------------------------------
(* C10: the error list only grows at its end.  The domains are visited in  *)
(* input order and the entries of a domain in list order, the errors a     *)
(* step adds are those of the domain or entry it visits, and do_id_pass    *)
(* starts after the last domain, so every error of the identifier pass     *)
(* follows every error of the validation.                                  *)
C10_Names(e) == SubSeq(e.message, 2, Len(e.message))

C10_Step ==
    /\ IsPrefix(errors, errors')
    /\ pc = "core" =>
          \A e \in 1..Len(Added(errors, errors')) :
              /\ Added(errors, errors')[e].message[1] \notin ResolverTexts
              /\ C10_Names(Added(errors, errors')[e]) = <<"esphomeyaml">>
    /\ pc = "domain" =>
          /\ i' \in {i, i + 1}
          /\ pc' = "entries" => (i' = i /\ j' = 1)
          /\ \A e \in 1..Len(Added(errors, errors')) :
                /\ Added(errors, errors')[e].message[1] \notin ResolverTexts
                /\ C10_Names(Added(errors, errors')[e])[1] = config[i][1]
    /\ pc = "entries" =>
          /\ (i' = i /\ j' = j + 1 /\ pc' = "entries") \/ (i' = i + 1 /\ errors' = errors)
          /\ \A e \in 1..Len(Added(errors, errors')) :
                LET new == Added(errors, errors')[e]
                    entry == domain_conf(i).entries[j]
                IN  /\ new.message[1] \notin ResolverTexts
                    /\ \/ C10_Names(new) = <<>>
                       \/ C10_Names(new)[1] = config[i][1]
                       \/ C10_Names(new)[1] = config[i][1] \o "." \o entry.platform
                    /\ Len(C10_Names(new)) >= 2 => C10_Names(new)[2] = entry.platform
    /\ pc \in {"do_id_pass", "declare", "search"} =>
          /\ i = Len(config) + 1 /\ i' = i
          /\ pc' \in {"declare", "search", "return"}
          /\ \A e \in 1..Len(Added(errors, errors')) :
                Added(errors, errors')[e].message[1] \in ResolverTexts
    /\ pc \in {"return", "done", "aborted"} => errors' = errors

C10_Ordered ==
    \A a, b \in 1..Len(errors) :
        (a < b /\ errors[a].message[1] \in ResolverTexts)
           => errors[b].message[1] \in ResolverTexts

====
